---- MODULE Spec2Model ----
(***************************************************************************)
(* The command-line dispatcher of scrapy (cmdline.py): command discovery,  *)
(* command-name resolution, the option pipeline, the execution wrapper and *)
(* the usage-error surface, as one sequential state machine over the       *)
(* statements of execute().                                                *)
(*                                                                         *)
(* Strings that the code inspects character by character (argv tokens,     *)
(* command names) are sequences of code points, so that startswith('-'),   *)
(* the empty string and Python's string ordering are computed, not assumed.*)
(***************************************************************************)
EXTENDS Integers, Sequences, FiniteSets, TLC

VARIABLES
    argv,            \* the argument vector (a list, mutated in place)
    argv0,           \* the argument vector as it was passed to execute()
    settingsGiven,   \* execute() was called with settings is not None
    envEditor,       \* os.environ has the key EDITOR
    settings,        \* the Settings Provider: key -> [value, priority]
    inproject,       \* inside_project()
    builtinClasses,  \* what _iter_command_classes('scrapy.commands') yields
    entryPoints,     \* what pkg_resources.iter_entry_points(group) yields
    moduleClasses,   \* what _iter_command_classes(COMMANDS_MODULE) yields
    cmds,            \* the registry: command name -> command instance
    cmdname,         \* the value returned by _pop_command_name
    parserInput,     \* the list handed to parser.parse_known_args
    opts,            \* the parsed options
    args,            \* the leftover arguments
    exitcode,        \* cmd.exitcode of the resolved command
    pc,              \* the statement of execute() that runs next
    outcome,         \* how execute() ended: still running, SystemExit, exception
    stdout,          \* the lines printed
    stderr,          \* the lines written to the error stream
    calls,           \* the calls made on collaborators, in order
    nDiscover,       \* the number of calls of _get_commands_dict
    nInst            \* the number of command classes instantiated

vars == <<argv, argv0, settingsGiven, envEditor, settings, inproject,
          builtinClasses, entryPoints, moduleClasses, cmds, cmdname,
          parserInput, opts, args, exitcode, pc, outcome, stdout, stderr,
          calls, nDiscover, nInst>>

(***************************************************************************)
(* Bounds of the model.                                                    *)
(***************************************************************************)
\* the greatest number of arguments after the program name
MaxArgs == 3
\* the greatest number of command classes and plugin entries that the three
\* discovery sources hold together
MaxClasses == 3

(***************************************************************************)
(* Strings.                                                                *)
(***************************************************************************)
\* ord('-'), the flag marker tested by _pop_command_name
Dash == 45

\* "scrapy"
Prog == <<115, 99, 114, 97, 112, 121>>
\* "-x", a flag no parser option matches
FlagX == <<45, 120>>
\* "--profile", the generic profiling option, its value in the next token
ProfileFlag == <<45, 45, 112, 114, 111, 102, 105, 108, 101>>
\* "--profile=f", the generic profiling option with its value
ProfileOpt == <<45, 45, 112, 114, 111, 102, 105, 108, 101, 61, 102>>
\* "-h" and "--help", the parser's help option
HelpShort == <<45, 104>>
HelpLong == <<45, 45, 104, 101, 108, 112>>
\* "--", the parser's end-of-options marker
DashDash == <<45, 45>>
\* "a" and "b", two command names
NameA == <<97>>
NameB == <<98>>
\* "", the empty string
EmptyStr == <<>>

\* the tokens an argument vector is drawn from
Tokens ==
    {FlagX, ProfileFlag, ProfileOpt, HelpShort, HelpLong, DashDash, NameA,
     NameB, EmptyStr}

\* the names a discovery source can register a command under
CmdNames == {NameA, NameB}

\* str.startswith('-')
StartsWithDash(arg) == Len(arg) > 0 /\ arg[1] = Dash

\* Python's order on str: lexicographic by code point, a proper prefix first
RECURSIVE StrLess(_, _)
StrLess(a, b) ==
    IF b = <<>> THEN FALSE
    ELSE IF a = <<>> THEN TRUE
    ELSE IF Head(a) # Head(b) THEN Head(a) < Head(b)
    ELSE StrLess(Tail(a), Tail(b))

\* del lst[i], for a 0-based index i
DelAt(lst, i) ==
    [k \in 1..(Len(lst) - 1) |-> IF k <= i THEN lst[k] ELSE lst[k + 1]]

\* lst[1:]
Slice1(lst) == IF lst = <<>> THEN <<>> ELSE Tail(lst)

(***************************************************************************)
(* Dictionaries.                                                           *)
(***************************************************************************)
\* d[k] = v
DictSet(d, k, v) ==
    [x \in (DOMAIN d) \cup {k} |-> IF x = k THEN v ELSE d[x]]

\* d.update(e)
DictUpdate(d, e) ==
    [x \in (DOMAIN d) \cup (DOMAIN e) |-> IF x \in DOMAIN e THEN e[x] ELSE d[x]]

EmptyDict == [x \in {} |-> 0]

(***************************************************************************)
(* Settings Provider (scrapy.settings.Settings).                           *)
(***************************************************************************)
\* SETTINGS_PRIORITIES['default'], ['command'] and ['project']
PriorityDefault == 0
PriorityCommand == 10
PriorityProject == 20

\* Settings.set(name, value, priority): a write wins unless the key already
\* holds a value of a strictly higher priority
SettingsSet(s, name, value, priority) ==
    IF name \in DOMAIN s /\ s[name].priority > priority
    THEN s
    ELSE DictSet(s, name, [value |-> value, priority |-> priority])

\* cmd.default_settings of a command: the key it contributes and its value
DefaultSettingsKey == "LOG_ENABLED"
DefaultSettingsValue == "False"

\* Settings.setdict(cmd.default_settings, priority)
SettingsSetDict(s, priority) ==
    SettingsSet(s, DefaultSettingsKey, DefaultSettingsValue, priority)

\* the object get_project_settings() returns, or the caller passes in
ProjectSettings(cmdsModule) ==
    [x \in {"COMMANDS_MODULE", "EDITOR", DefaultSettingsKey} |->
        CASE x = "COMMANDS_MODULE" ->
                 IF cmdsModule = ""
                 THEN [value |-> "", priority |-> PriorityDefault]
                 ELSE [value |-> cmdsModule, priority |-> PriorityProject]
          [] x = "EDITOR" -> [value |-> "vi", priority |-> PriorityDefault]
          [] OTHER -> [value |-> "True", priority |-> PriorityDefault]]

(***************************************************************************)
(* Command discovery.                                                      *)
(***************************************************************************)
\* cmd() / obj(): the instance of a command class
Instantiate(cls) == [cls |-> cls]

\* _get_commands_from_module: the loop body folded over the classes that
\* _iter_command_classes yields, in order
RECURSIVE ModuleLoop(_, _, _)
ModuleLoop(classes, inproj, d) ==
    IF classes = <<>> THEN d
    ELSE LET cmd == Head(classes) IN
         IF inproj \/ ~cmd.requires_project
         THEN ModuleLoop(Tail(classes), inproj,
                         DictSet(d, cmd.name, Instantiate(cmd)))
         ELSE ModuleLoop(Tail(classes), inproj, d)

\* mutant of get_commands_from_module: the requires_project test is left out
get_commands_from_module_unfiltered(classes, inproj) ==
    ModuleLoop(classes, TRUE, EmptyDict)

get_commands_from_module(classes, inproj) ==
    ModuleLoop(classes, inproj, EmptyDict)

\* the number of cmd() calls one _get_commands_from_module makes
RECURSIVE ModuleInstCount(_, _)
ModuleInstCount(classes, inproj) ==
    IF classes = <<>> THEN 0
    ELSE (IF inproj \/ ~Head(classes).requires_project THEN 1 ELSE 0)
         + ModuleInstCount(Tail(classes), inproj)

\* _get_commands_from_entry_points: ok is FALSE when the loop raised
\* Exception("Invalid entry point <bad>")
RECURSIVE EntryLoop(_, _, _)
EntryLoop(entries, d, n) ==
    IF entries = <<>> THEN [ok |-> TRUE, cmds |-> d, bad |-> EmptyStr, ninst |-> n]
    ELSE LET entry_point == Head(entries) IN
         IF entry_point.isclass
         THEN EntryLoop(Tail(entries),
                        DictSet(d, entry_point.name, Instantiate(entry_point)),
                        n + 1)
         ELSE [ok |-> FALSE, cmds |-> d, bad |-> entry_point.name, ninst |-> n]

\* mutant of get_commands_from_entry_points: the requires_project test of
\* the module scan is applied to the entries too
RECURSIVE EntryLoopFiltered(_, _, _, _)
EntryLoopFiltered(entries, inproj, d, n) ==
    IF entries = <<>> THEN [ok |-> TRUE, cmds |-> d, bad |-> EmptyStr, ninst |-> n]
    ELSE LET entry_point == Head(entries) IN
         IF ~entry_point.isclass
         THEN [ok |-> FALSE, cmds |-> d, bad |-> entry_point.name, ninst |-> n]
         ELSE IF inproj \/ ~entry_point.requires_project
         THEN EntryLoopFiltered(Tail(entries), inproj,
                  DictSet(d, entry_point.name, Instantiate(entry_point)), n + 1)
         ELSE EntryLoopFiltered(Tail(entries), inproj, d, n)

get_commands_from_entry_points_filtered(entries, inproj) ==
    EntryLoopFiltered(entries, inproj, EmptyDict, 0)

\* mutant of get_commands_from_entry_points: an object that is no class is
\* skipped
RECURSIVE EntryLoopSkipping(_, _, _)
EntryLoopSkipping(entries, d, n) ==
    IF entries = <<>> THEN [ok |-> TRUE, cmds |-> d, bad |-> EmptyStr, ninst |-> n]
    ELSE LET entry_point == Head(entries) IN
         IF entry_point.isclass
         THEN EntryLoopSkipping(Tail(entries),
                  DictSet(d, entry_point.name, Instantiate(entry_point)), n + 1)
         ELSE EntryLoopSkipping(Tail(entries), d, n)

get_commands_from_entry_points_skipping(entries, inproj) ==
    EntryLoopSkipping(entries, EmptyDict, 0)

get_commands_from_entry_points(entries, inproj) ==
    EntryLoop(entries, EmptyDict, 0)

\* the truth value of a settings string
Truthy(value) == value # ""

\* mutant of get_commands_dict: the built-in commands are merged last
get_commands_dict_builtin_last(s, inproj) ==
    LET builtin == get_commands_from_module(builtinClasses, inproj)
        eps == get_commands_from_entry_points(entryPoints, inproj)
        cmds_module == s["COMMANDS_MODULE"].value
        override == IF Truthy(cmds_module)
                    THEN get_commands_from_module(moduleClasses, inproj)
                    ELSE EmptyDict
    IN  [ok |-> eps.ok,
         cmds |-> IF eps.ok
                  THEN DictUpdate(DictUpdate(eps.cmds, override), builtin)
                  ELSE EmptyDict,
         bad |-> eps.bad,
         ninst |-> ModuleInstCount(builtinClasses, inproj) + eps.ninst]

\* _get_commands_dict(settings, inproject), over the three sources the
\* environment holds
get_commands_dict(s, inproj) ==
    LET builtin == get_commands_from_module(builtinClasses, inproj)
        eps == get_commands_from_entry_points(entryPoints, inproj)
        cmds_module == s["COMMANDS_MODULE"].value
        merged == DictUpdate(builtin, eps.cmds)
    IN  IF ~eps.ok
        THEN [ok |-> FALSE, cmds |-> EmptyDict, bad |-> eps.bad,
              ninst |-> ModuleInstCount(builtinClasses, inproj) + eps.ninst]
        ELSE IF Truthy(cmds_module)
        THEN [ok |-> TRUE,
              cmds |-> DictUpdate(merged,
                           get_commands_from_module(moduleClasses, inproj)),
              bad |-> EmptyStr,
              ninst |-> ModuleInstCount(builtinClasses, inproj) + eps.ninst
                        + ModuleInstCount(moduleClasses, inproj)]
        ELSE [ok |-> TRUE, cmds |-> merged, bad |-> EmptyStr,
              ninst |-> ModuleInstCount(builtinClasses, inproj) + eps.ninst]

(***************************************************************************)
(* Command resolution.                                                     *)
(***************************************************************************)
\* the value a Python function returns: None, or a string
None == [isNone |-> TRUE, val |-> EmptyStr]
Str(s) == [isNone |-> FALSE, val |-> s]

\* `not x` for x a str, an empty list or None
Falsy(x) == x.isNone \/ x.val = EmptyStr

\* the empty list [], which is false like None and ''
EmptyList == [isNone |-> FALSE, val |-> EmptyStr, list |-> TRUE]

\* the for loop of _pop_command_name over the copy argv[1:], with the
\* counter i; lst is the list argv itself
RECURSIVE PopLoop(_, _, _)
PopLoop(rest, i, lst) ==
    IF rest = <<>> THEN [ret |-> None, argv |-> lst]
    ELSE LET arg == Head(rest) IN
         IF ~StartsWithDash(arg)
         THEN [ret |-> Str(arg), argv |-> DelAt(lst, i)]
         ELSE PopLoop(Tail(rest), i + 1, lst)

\* _pop_command_name(argv): the value returned and argv afterwards
pop_command_name(lst) == PopLoop(Slice1(lst), 0, lst)

(***************************************************************************)
(* Output.                                                                 *)
(***************************************************************************)
\* one printed line: what it is, and the command name it carries if any
Line(what, name) == [line |-> what, name |-> name]

\* mutant of SortedNames: the names in descending order
RECURSIVE SortedNamesDescending(_)
SortedNamesDescending(S) ==
    IF S = {} THEN <<>>
    ELSE LET greatest == CHOOSE x \in S : \A y \in S \ {x} : StrLess(y, x)
         IN  <<greatest>> \o SortedNamesDescending(S \ {greatest})

\* sorted(names): ascending in Python's string order
RECURSIVE SortedNames(_)
SortedNames(S) ==
    IF S = {} THEN <<>>
    ELSE LET least == CHOOSE x \in S : \A y \in S \ {x} : StrLess(x, y)
         IN  <<least>> \o SortedNames(S \ {least})

\* _print_header
print_header(inproj) ==
    <<Line(IF inproj THEN "header project" ELSE "header no active project",
           EmptyStr)>>

\* the lines _print_commands prints for the registry d
print_commands(d, inproj) ==
    LET names == SortedNames(DOMAIN d) IN
    print_header(inproj)
    \o <<Line("Usage:", EmptyStr), Line("Available commands:", EmptyStr)>>
    \o [k \in 1..Len(names) |-> Line("command", names[k])]
    \o (IF ~inproj THEN <<Line("[ more ]", EmptyStr)>> ELSE <<>>)
    \o <<Line("Use scrapy <command> -h", EmptyStr)>>

\* the lines _print_unknown_command prints
print_unknown_command(name, inproj) ==
    print_header(inproj)
    \o <<Line("Unknown command:", name), Line("Use scrapy", EmptyStr)>>

(***************************************************************************)
(* The option parser and the usage-error surface.                          *)
(***************************************************************************)
\* an option of the parser: one of its option strings, the attribute of opts
\* it sets and the number of arguments it takes
Option(string, dest, nargs) ==
    [string |-> string, dest |-> dest, nargs |-> nargs]

\* the options of the parser of a command: the help option and the generic
\* options (--logfile, -L/--loglevel, --nolog, --profile, --pidfile,
\* -s/--set, --pdb)
ParserOptions ==
    {Option(HelpShort, "help", 0),
     Option(HelpLong, "help", 0),
     Option(<<45, 45, 108, 111, 103, 102, 105, 108, 101>>, "logfile", 1),
     Option(<<45, 76>>, "loglevel", 1),
     Option(<<45, 45, 108, 111, 103, 108, 101, 118, 101, 108>>, "loglevel", 1),
     Option(<<45, 45, 110, 111, 108, 111, 103>>, "nolog", 0),
     Option(ProfileFlag, "profile", 1),
     Option(<<45, 45, 112, 105, 100, 102, 105, 108, 101>>, "pidfile", 1),
     Option(<<45, 115>>, "set", 1),
     Option(<<45, 45, 115, 101, 116>>, "set", 1),
     Option(<<45, 45, 112, 100, 98>>, "pdb", 0)}

OptionStrings == {o.string : o \in ParserOptions}

\* the option an option string belongs to
Action(string) == CHOOSE o \in ParserOptions : o.string = string

\* ord('='), ord(' '), ord('.') and ord('\n')
Equals == 61
Space == 32
Dot == 46
Newline == 10

\* str.startswith
StartsWith(str, prefix) ==
    Len(prefix) <= Len(str) /\ SubSeq(str, 1, Len(prefix)) = prefix

\* the index of the first '=' of str, 0 when it has none
EqualsIndex(str) ==
    IF \E k \in 1..Len(str) : str[k] = Equals
    THEN CHOOSE k \in 1..Len(str) :
             str[k] = Equals /\ \A j \in 1..(k - 1) : str[j] # Equals
    ELSE 0

\* the two parts of str.split('=', 1)
BeforeEquals(str) == SubSeq(str, 1, EqualsIndex(str) - 1)
AfterEquals(str) == SubSeq(str, EqualsIndex(str) + 1, Len(str))

\* the ranges of the code points that \d matches in a str pattern: the
\* decimal digits of every script (Unicode 14.0.0)
DecimalDigitRanges ==
    {<<48, 57>>, <<1632, 1641>>, <<1776, 1785>>, <<1984, 1993>>,
     <<2406, 2415>>, <<2534, 2543>>, <<2662, 2671>>, <<2790, 2799>>,
     <<2918, 2927>>, <<3046, 3055>>, <<3174, 3183>>, <<3302, 3311>>,
     <<3430, 3439>>, <<3558, 3567>>, <<3664, 3673>>, <<3792, 3801>>,
     <<3872, 3881>>, <<4160, 4169>>, <<4240, 4249>>, <<6112, 6121>>,
     <<6160, 6169>>, <<6470, 6479>>, <<6608, 6617>>, <<6784, 6793>>,
     <<6800, 6809>>, <<6992, 7001>>, <<7088, 7097>>, <<7232, 7241>>,
     <<7248, 7257>>, <<42528, 42537>>, <<43216, 43225>>, <<43264, 43273>>,
     <<43472, 43481>>, <<43504, 43513>>, <<43600, 43609>>,
     <<44016, 44025>>, <<65296, 65305>>, <<66720, 66729>>,
     <<68912, 68921>>, <<69734, 69743>>, <<69872, 69881>>,
     <<69942, 69951>>, <<70096, 70105>>, <<70384, 70393>>,
     <<70736, 70745>>, <<70864, 70873>>, <<71248, 71257>>,
     <<71360, 71369>>, <<71472, 71481>>, <<71904, 71913>>,
     <<72016, 72025>>, <<72784, 72793>>, <<73040, 73049>>,
     <<73120, 73129>>, <<92768, 92777>>, <<92864, 92873>>,
     <<93008, 93017>>, <<120782, 120831>>, <<123200, 123209>>,
     <<123632, 123641>>, <<125264, 125273>>, <<130032, 130041>>}

IsDigit(c) == \E r \in DecimalDigitRanges : r[1] <= c /\ c <= r[2]

AllDigits(str) == \A k \in 1..Len(str) : IsDigit(str[k])

\* the parser's test for a negative number: '^-\d+$|^-\d*\.\d+$' matches arg
IsNegativeNumber(arg) ==
    LET last == IF Len(arg) > 1 /\ arg[Len(arg)] = Newline
                THEN Len(arg) - 1 ELSE Len(arg)
        body == SubSeq(arg, 2, last)
    IN
    /\ arg[1] = Dash
    /\ \/ Len(body) >= 1 /\ AllDigits(body)
       \/ \E k \in 1..Len(body) :
              /\ body[k] = Dot
              /\ AllDigits(SubSeq(body, 1, k - 1))
              /\ k < Len(body)
              /\ AllDigits(SubSeq(body, k + 1, Len(body)))

\* what the parser takes a token for: an argument ("A"), an option ("O": the
\* option string it stands for, empty for an option the parser does not know,
\* and its explicit argument), or an ambiguous abbreviation
OptionTuple(kind, string, explicit) ==
    [kind |-> kind, string |-> string, explicit |-> explicit]

Positional == OptionTuple("A", EmptyStr, None)

\* _get_option_tuples: the options arg abbreviates; arg begins with '-', has
\* at least two characters and is no option string itself
get_option_tuples(arg) ==
    IF arg[2] = Dash
    THEN LET prefix == IF EqualsIndex(arg) > 0 THEN BeforeEquals(arg) ELSE arg
             explicit == IF EqualsIndex(arg) > 0
                         THEN Str(AfterEquals(arg)) ELSE None
         IN {OptionTuple("O", t, explicit) :
                 t \in {o \in OptionStrings : StartsWith(o, prefix)}}
    ELSE {OptionTuple("O", t, Str(SubSeq(arg, 3, Len(arg)))) :
              t \in {o \in OptionStrings : o = SubSeq(arg, 1, 2)}}
         \cup {OptionTuple("O", t, None) :
                   t \in {o \in OptionStrings : StartsWith(o, arg)}}

\* _parse_optional(arg)
parse_optional(arg) ==
    IF arg = EmptyStr THEN Positional
    ELSE IF arg[1] # Dash THEN Positional
    ELSE IF arg \in OptionStrings THEN OptionTuple("O", arg, None)
    ELSE IF Len(arg) = 1 THEN Positional
    ELSE IF EqualsIndex(arg) > 0 /\ BeforeEquals(arg) \in OptionStrings
    THEN OptionTuple("O", BeforeEquals(arg), Str(AfterEquals(arg)))
    ELSE IF Cardinality(get_option_tuples(arg)) > 1
    THEN OptionTuple("ambiguous", EmptyStr, None)
    ELSE IF Cardinality(get_option_tuples(arg)) = 1
    THEN CHOOSE t \in get_option_tuples(arg) : TRUE
    ELSE IF IsNegativeNumber(arg) THEN Positional
    ELSE IF \E k \in 1..Len(arg) : arg[k] = Space THEN Positional
    ELSE OptionTuple("O", EmptyStr, None)

\* the number of tokens the parser scans for options: those before the first
\* "--"
OptionCount(input) ==
    IF \E k \in 1..Len(input) : input[k] = DashDash
    THEN (CHOOSE k \in 1..Len(input) :
              /\ input[k] = DashDash
              /\ \A j \in 1..(k - 1) : input[j] # DashDash) - 1
    ELSE Len(input)

\* whether token k of input counts as an argument ('A' in the parser's
\* pattern), n being OptionCount(input): token n + 1 is the first "--"
IsArgument(input, n, k) ==
    IF k <= n THEN parse_optional(input[k]).kind = "A" ELSE k > n + 1

\* _match_argument: the number of tokens an option of nargs arguments takes
\* from token s on; -1 when the argument it expects is not there (the end
\* of the input, an option or the "--" follows)
match_argument(input, n, nargs, s) ==
    IF nargs = 0 THEN 0
    ELSE IF s <= Len(input) /\ IsArgument(input, n, s) THEN 1
    ELSE -1

\* how the parser ends on one option
OptionError == [kind |-> "error", stop |-> 0, sets |-> FALSE, value |-> None]

\* consume_optional: the option string at token j with its explicit argument;
\* helpFirst: the help option was met in the same token, as a short flag
\* before this one. kind "help": the help action is taken (the parser prints
\* the help text and exits); kind "ok": the parsing goes on from token stop,
\* opts.profile being value if sets
RECURSIVE ConsumeOptional(_, _, _, _, _, _)
ConsumeOptional(input, n, j, string, explicit, helpFirst) ==
    LET action == Action(string)
        Done(stop, value) ==
            IF helpFirst \/ action.dest = "help"
            THEN [kind |-> "help", stop |-> stop, sets |-> FALSE,
                  value |-> None]
            ELSE [kind |-> "ok", stop |-> stop,
                  sets |-> action.dest = "profile", value |-> value]
    IN
    IF ~explicit.isNone
    THEN IF action.nargs = 0 /\ string[2] # Dash /\ explicit.val # EmptyStr
         THEN LET next == <<Dash, explicit.val[1]>>
                  rest == SubSeq(explicit.val, 2, Len(explicit.val))
              IN IF next \in OptionStrings
                 THEN ConsumeOptional(input, n, j, next,
                                      IF rest = EmptyStr THEN None
                                      ELSE Str(rest),
                                      helpFirst \/ action.dest = "help")
                 ELSE OptionError
         ELSE IF action.nargs = 1
         \* an explicit argument "--" is dropped by _get_values, which leaves
         \* the empty list as the value
         THEN Done(j + 1, IF explicit.val = DashDash THEN EmptyList
                          ELSE Str(explicit.val))
         ELSE OptionError
    ELSE LET count == match_argument(input, n, action.nargs, j + 1) IN
         IF count < 0 THEN OptionError
         ELSE Done(j + 1 + count,
                   IF action.nargs = 0 THEN None ELSE Str(input[j + 1]))

ParserError == [kind |-> "error", opts |-> [profile |-> None], args |-> <<>>]
ParserHelp == [kind |-> "help", opts |-> [profile |-> None], args |-> <<>>]

\* the loop of _parse_known_args from token i on: the options are consumed in
\* order, and every token between them that no option takes is left over
RECURSIVE ParseLoop(_, _, _, _, _)
ParseLoop(input, n, i, profile, extras) ==
    LET options == {k \in i..n : parse_optional(input[k]).kind = "O"} IN
    IF options = {}
    THEN [kind |-> "ok", opts |-> [profile |-> profile],
          args |-> extras \o SubSeq(input, i, Len(input))]
    ELSE LET j == CHOOSE k \in options : \A m \in options : k <= m
             t == parse_optional(input[j])
             skipped == extras \o SubSeq(input, i, j - 1)
         IN
         IF t.string = EmptyStr
         THEN ParseLoop(input, n, j + 1, profile, Append(skipped, input[j]))
         ELSE LET c == ConsumeOptional(input, n, j, t.string, t.explicit,
                                       FALSE)
              IN
              IF c.kind = "error" THEN ParserError
              ELSE IF c.kind = "help" THEN ParserHelp
              ELSE ParseLoop(input, n, c.stop,
                             IF c.sets THEN c.value ELSE profile,
                             skipped)

\* parser.parse_known_args(args=input) for the parser of a command that adds
\* no option of its own. Options are looked for before the first "--" only,
\* and an ambiguous abbreviation among them is an error before any option is
\* acted on. kind "help": the parser prints the help text and exits with 0;
\* kind "error": it calls parser.error; kind "ok": it returns opts, of which
\* only profile is kept (None when the option is not given), and args, the
\* tokens left over
parse_known_args(input) ==
    LET n == OptionCount(input) IN
    IF \E k \in 1..n : parse_optional(input[k]).kind = "ambiguous"
    THEN ParserError
    ELSE ParseLoop(input, n, 1, None, <<>>)

\* how a call of a command hook ends
Returned == [kind |-> "return", msg |-> "", print_help |-> FALSE]
UsageErrors == [kind : {"UsageError"}, msg : {"", "m"}, print_help : BOOLEAN]
OtherException == [kind |-> "Exception", msg |-> "", print_help |-> FALSE]
HookResults == {Returned, OtherException} \cup UsageErrors

\* how p.dump_stats(opts.profile) ends: the file is written, or open() raises
\* (the path names a directory, or cannot be written)
DumpFailed == [kind |-> "OSError", msg |-> "", print_help |-> FALSE]
DumpResults == {Returned, DumpFailed}

\* how execute() stands
Running == [kind |-> "running", code |-> 0, exc |-> "", name |-> EmptyStr]
SystemExit(code) ==
    [kind |-> "exit", code |-> code, exc |-> "", name |-> EmptyStr]
Raised(exc) == [kind |-> "raise", code |-> 0, exc |-> exc, name |-> EmptyStr]
\* an exception whose message names an entry point
RaisedNaming(exc, name) ==
    [kind |-> "raise", code |-> 0, exc |-> exc, name |-> name]

\* mutant of run_print_help: the Usage Error is reported, and execute() goes on
run_print_help_no_exit(r) ==
    IF r.kind \in {"return", "UsageError"}
    THEN [outcome |-> Running,
          err |-> IF r.msg # "" THEN <<Line("parser.error", EmptyStr)>>
                  ELSE <<>>,
          out |-> IF r.msg = "" /\ r.print_help
                  THEN <<Line("parser.print_help", EmptyStr)>> ELSE <<>>]
    ELSE [outcome |-> Raised(r.kind), err |-> <<>>, out |-> <<>>]

\* mutant of run_print_help: no except clause, every exception leaves
run_print_help_uncaught(r) ==
    IF r.kind = "return"
    THEN [outcome |-> Running, err |-> <<>>, out |-> <<>>]
    ELSE [outcome |-> Raised(r.kind), err |-> <<>>, out |-> <<>>]

\* mutant of run_print_help: the help text is never printed
run_print_help_no_help(r) ==
    IF r.kind = "return"
    THEN [outcome |-> Running, err |-> <<>>, out |-> <<>>]
    ELSE IF r.kind = "UsageError"
    THEN IF r.msg # ""
         THEN [outcome |-> SystemExit(2),
               err |-> <<Line("parser.error", EmptyStr)>>, out |-> <<>>]
         ELSE [outcome |-> SystemExit(2), err |-> <<>>, out |-> <<>>]
    ELSE [outcome |-> Raised(r.kind), err |-> <<>>, out |-> <<>>]

\* mutant of run_print_help: parser.error prints the message and returns
run_print_help_error_returns(r) ==
    IF r.kind = "return"
    THEN [outcome |-> Running, err |-> <<>>, out |-> <<>>]
    ELSE IF r.kind = "UsageError"
    THEN [outcome |-> SystemExit(2),
          err |-> IF r.msg # "" THEN <<Line("parser.error", EmptyStr)>>
                  ELSE <<>>,
          out |-> IF r.print_help
                  THEN <<Line("parser.print_help", EmptyStr)>> ELSE <<>>]
    ELSE [outcome |-> Raised(r.kind), err |-> <<>>, out |-> <<>>]

\* _run_print_help(parser, func, ...) when func ended as r: what becomes of
\* execute(), and what is written to stderr and stdout
run_print_help(r) ==
    IF r.kind = "return"
    THEN [outcome |-> Running, err |-> <<>>, out |-> <<>>]
    ELSE IF r.kind = "UsageError"
    THEN IF r.msg # ""
         THEN \* parser.error(str(e)) prints the message and exits with 2
              [outcome |-> SystemExit(2),
               err |-> <<Line("parser.error", EmptyStr)>>, out |-> <<>>]
         ELSE IF r.print_help
         THEN [outcome |-> SystemExit(2), err |-> <<>>,
               out |-> <<Line("parser.print_help", EmptyStr)>>]
         ELSE [outcome |-> SystemExit(2), err |-> <<>>, out |-> <<>>]
    ELSE [outcome |-> Raised(r.kind), err |-> <<>>, out |-> <<>>]

\* one call on a collaborator: how it ended, and the exit codes it stored in
\* cmd.exitcode (only run stores one)
Call(op, r, stored) ==
    [op |-> op, result |-> r, stored |-> stored, cmd |-> EmptyStr,
     args |-> <<>>, opts |-> [profile |-> None]]

\* one call on the command registered as name, with the arguments a and the
\* options o it is passed
CallOn(op, r, stored, name, a, o) ==
    [op |-> op, result |-> r, stored |-> stored, cmd |-> name,
     args |-> a, opts |-> o]

\* the options object before parsing
NoOpts == [profile |-> None]

(***************************************************************************)
(* The initial states: the inputs of execute().                            *)
(***************************************************************************)
\* all argument vectors: the program name and at most MaxArgs tokens
ArgVectors ==
    UNION {{<<Prog>> \o s : s \in [1..n -> Tokens]} : n \in 0..MaxArgs}

ClassBase == [name : CmdNames, requires_project : BOOLEAN, isclass : {TRUE}]
EntryBase ==
    ClassBase \cup [name : CmdNames, requires_project : {FALSE}, isclass : {FALSE}]

\* the n objects one source yields, in order
SourceSeqs(src, base, n) ==
    {[i \in 1..n |-> [src |-> src, idx |-> i, name |-> f[i].name,
                      requires_project |-> f[i].requires_project,
                      isclass |-> f[i].isclass]] : f \in [1..n -> base]}

\* the built-in namespace of the first two families of initial states: "a"
\* runs anywhere, "b" requires a project
PlainBuiltin ==
    <<[src |-> "builtin", idx |-> 1, name |-> NameA,
       requires_project |-> FALSE, isclass |-> TRUE],
      [src |-> "builtin", idx |-> 2, name |-> NameB,
       requires_project |-> TRUE, isclass |-> TRUE]>>

InitCommon ==
    /\ argv = argv0
    /\ cmds = EmptyDict
    /\ cmdname = None
    /\ parserInput = <<>>
    /\ opts = NoOpts
    /\ args = <<>>
    /\ exitcode = 0
    /\ pc = "start"
    /\ outcome = Running
    /\ stdout = <<>>
    /\ stderr = <<>>
    /\ calls = <<>>
    /\ nDiscover = 0
    /\ nInst = 0

\* any argument vector, over the plain sources
InitArgs ==
    /\ argv0 \in ArgVectors
    /\ inproject \in BOOLEAN
    /\ settingsGiven = FALSE
    /\ envEditor = FALSE
    /\ settings = ProjectSettings("")
    /\ builtinClasses = PlainBuiltin
    /\ entryPoints = <<>>
    /\ moduleClasses = <<>>

\* any three discovery sources of at most MaxClasses objects together
InitSources ==
    /\ argv0 \in {<<Prog>>, <<Prog, NameA>>}
    /\ inproject \in BOOLEAN
    /\ settingsGiven = FALSE
    /\ envEditor = FALSE
    /\ \E cmdsModule \in {"", "proj.commands"} :
           settings = ProjectSettings(cmdsModule)
    /\ \E nb \in 0..MaxClasses, ne \in 0..MaxClasses, nm \in 0..MaxClasses :
           /\ nb + ne + nm <= MaxClasses
           /\ builtinClasses \in SourceSeqs("builtin", ClassBase, nb)
           /\ entryPoints \in SourceSeqs("entry_point", EntryBase, ne)
           /\ moduleClasses \in SourceSeqs("module", ClassBase, nm)

\* any way of calling execute(): settings passed or not, EDITOR set or not
InitEnviron ==
    /\ argv0 \in {<<Prog>>, <<Prog, NameA>>}
    /\ inproject \in BOOLEAN
    /\ settingsGiven \in BOOLEAN
    /\ envEditor \in BOOLEAN
    /\ \E cmdsModule \in {"", "proj.commands"} :
           settings = ProjectSettings(cmdsModule)
    /\ builtinClasses = PlainBuiltin
    /\ entryPoints = <<>>
    /\ moduleClasses = <<>>

Init == (InitArgs \/ InitSources \/ InitEnviron) /\ InitCommon

(***************************************************************************)
(* execute(), statement by statement.                                      *)
(***************************************************************************)
env == <<argv0, settingsGiven, envEditor, inproject, builtinClasses,
         entryPoints, moduleClasses>>

\* the value of os.environ['EDITOR'] when the variable is set
EnvEditorValue == "emacs"

\* the values a command's run may store in self.exitcode
RunExitCodes == {1, 2}

\* the values add_options or process_options may store in self.exitcode
HookExitCodes == {3}

\* lines 111-127: settings is None -> get_project_settings(), and EDITOR
\* copied from the environment with settings['EDITOR'] = editor
GetSettings ==
    /\ pc = "start"
    /\ settings' = IF ~settingsGiven /\ envEditor
                   THEN SettingsSet(settings, "EDITOR", EnvEditorValue,
                                    PriorityProject)
                   ELSE settings
    /\ pc' = "discover"
    /\ UNCHANGED <<env, argv, cmds, cmdname, parserInput, opts, args,
                   exitcode, outcome, stdout, stderr, calls, nDiscover, nInst>>

\* lines 129-131: cmds = _get_commands_dict(settings, inproject)
Discover ==
    /\ pc = "discover"
    /\ LET r == get_commands_dict(settings, inproject) IN
       /\ nDiscover' = nDiscover + 1
       /\ nInst' = nInst + r.ninst
       /\ IF r.ok
          THEN /\ cmds' = r.cmds
               /\ pc' = "pop"
               /\ outcome' = outcome
          ELSE /\ cmds' = cmds
               /\ pc' = "done"
               /\ outcome' = RaisedNaming("Invalid entry point", r.bad)
    /\ UNCHANGED <<env, argv, settings, cmdname, parserInput, opts, args,
                   exitcode, stdout, stderr, calls>>

\* line 132: cmdname = _pop_command_name(argv)
PopCommandName ==
    /\ pc = "pop"
    /\ LET r == pop_command_name(argv) IN
       /\ cmdname' = r.ret
       /\ argv' = r.argv
    /\ pc' = "dispatch"
    /\ UNCHANGED <<env, settings, cmds, parserInput, opts, args, exitcode,
                   outcome, stdout, stderr, calls, nDiscover, nInst>>

\* lines 134-136: not cmdname -> _print_commands, which builds the registry
\* again, and sys.exit(0)
NoCommand ==
    /\ pc = "dispatch"
    /\ Falsy(cmdname)
    /\ LET r == get_commands_dict(settings, inproject) IN
       /\ nDiscover' = nDiscover + 1
       /\ nInst' = nInst + r.ninst
       /\ stdout' = stdout \o print_commands(r.cmds, inproject)
    /\ outcome' = SystemExit(0)
    /\ pc' = "done"
    /\ UNCHANGED <<env, argv, settings, cmds, cmdname, parserInput, opts,
                   args, exitcode, stderr, calls>>

\* lines 137-139: cmdname not in cmds -> _print_unknown_command, sys.exit(2)
UnknownCommand ==
    /\ pc = "dispatch"
    /\ ~Falsy(cmdname)
    /\ cmdname.val \notin DOMAIN cmds
    /\ stdout' = stdout \o print_unknown_command(cmdname.val, inproject)
    /\ outcome' = SystemExit(2)
    /\ pc' = "done"
    /\ UNCHANGED <<env, argv, settings, cmds, cmdname, parserInput, opts,
                   args, exitcode, stderr, calls, nDiscover, nInst>>

\* mutant of SetupCommand: the default_settings are merged at 'default'
\* priority
SetupCommand_default_priority ==
    /\ pc = "dispatch"
    /\ ~Falsy(cmdname)
    /\ cmdname.val \in DOMAIN cmds
    /\ settings' = SettingsSetDict(settings, PriorityDefault)
    /\ calls' = calls
                \o <<CallOn("setdict", Returned, {}, cmdname.val, <<>>, NoOpts),
                     CallOn("bind settings", Returned, {}, cmdname.val,
                            <<>>, NoOpts)>>
    /\ pc' = "add_options"
    /\ UNCHANGED <<env, argv, cmds, cmdname, parserInput, opts, args,
                   exitcode, outcome, stdout, stderr, nDiscover, nInst>>

\* lines 141-147: the command is looked up, its default_settings merged at
\* 'command' priority, the settings bound to it
SetupCommand ==
    /\ pc = "dispatch"
    /\ ~Falsy(cmdname)
    /\ cmdname.val \in DOMAIN cmds
    /\ settings' = SettingsSetDict(settings, PriorityCommand)
    /\ calls' = calls
                \o <<CallOn("setdict", Returned, {}, cmdname.val, <<>>, NoOpts),
                     CallOn("bind settings", Returned, {}, cmdname.val,
                            <<>>, NoOpts)>>
    /\ pc' = "add_options"
    /\ UNCHANGED <<env, argv, cmds, cmdname, parserInput, opts, args,
                   exitcode, outcome, stdout, stderr, nDiscover, nInst>>

\* line 148: cmd.add_options(parser); an exception it raises leaves execute()
AddOptions ==
    /\ pc = "add_options"
    /\ \E r \in HookResults, stored \in {{}} \cup {{c} : c \in HookExitCodes} :
           /\ calls' = Append(calls, CallOn("add_options", r, stored,
                                            cmdname.val, <<>>, NoOpts))
           /\ exitcode' = IF stored = {} THEN exitcode
                           ELSE CHOOSE x \in stored : TRUE
           /\ IF r.kind = "return"
              THEN pc' = "parse" /\ outcome' = outcome
              ELSE pc' = "done" /\ outcome' = Raised(r.kind)
    /\ UNCHANGED <<env, argv, settings, cmds, cmdname, parserInput, opts,
                   args, stdout, stderr, nDiscover, nInst>>

\* line 150: opts, args = parser.parse_known_args(args=argv[1:]); on the help
\* option the parser prints the help text and exits with 0; what it rejects
\* it reports with parser.error, which exits with 2
ParseArgs ==
    /\ pc = "parse"
    /\ parserInput' = Slice1(argv)
    /\ calls' = Append(calls, Call("parse_known_args", Returned, {}))
    /\ \/ /\ parse_known_args(Slice1(argv)).kind = "ok"
          /\ opts' = parse_known_args(Slice1(argv)).opts
          /\ args' = parse_known_args(Slice1(argv)).args
          /\ pc' = "process_options"
          /\ UNCHANGED <<outcome, stdout, stderr>>
       \/ /\ parse_known_args(Slice1(argv)).kind = "help"
          /\ stdout' = Append(stdout, Line("parser.print_help", EmptyStr))
          /\ outcome' = SystemExit(0)
          /\ pc' = "done"
          /\ UNCHANGED <<opts, args, stderr>>
       \/ /\ parse_known_args(Slice1(argv)).kind = "error"
          /\ stderr' = Append(stderr, Line("parser.error", EmptyStr))
          /\ outcome' = SystemExit(2)
          /\ pc' = "done"
          /\ UNCHANGED <<opts, args, stdout>>
    /\ UNCHANGED <<env, argv, settings, cmds, cmdname, exitcode,
                   nDiscover, nInst>>

\* line 151: _run_print_help(parser, cmd.process_options, args, opts)
ProcessOptions ==
    /\ pc = "process_options"
    /\ \E r \in HookResults, stored \in {{}} \cup {{c} : c \in HookExitCodes} :
           LET h == run_print_help(r) IN
           /\ calls' = Append(calls, CallOn("process_options", r, stored,
                                            cmdname.val, args, opts))
           /\ exitcode' = IF stored = {} THEN exitcode
                           ELSE CHOOSE x \in stored : TRUE
           /\ outcome' = h.outcome
           /\ stderr' = stderr \o h.err
           /\ stdout' = stdout \o h.out
           /\ pc' = IF h.outcome = Running THEN "crawler_process" ELSE "done"
    /\ UNCHANGED <<env, argv, settings, cmds, cmdname, parserInput, opts,
                   args, nDiscover, nInst>>

\* line 154: cmd.crawler_process = CrawlerProcess(settings)
MakeCrawlerProcess ==
    /\ pc = "crawler_process"
    /\ \E r \in HookResults :
           /\ calls' = Append(calls, Call("CrawlerProcess", r, {}))
           /\ IF r.kind = "return"
              THEN pc' = "run" /\ outcome' = outcome
              ELSE pc' = "done" /\ outcome' = Raised(r.kind)
    /\ UNCHANGED <<env, argv, settings, cmds, cmdname, parserInput, opts,
                   args, exitcode, stdout, stderr, nDiscover, nInst>>

\* _run_command_profiled(cmd, args, opts) (lines 168-176) when cmd.run ends
\* as r having stored the exit codes in stored, and p.dump_stats, if it is
\* reached, ends as d: how the function itself ends, the lines written to
\* stderr and the calls made, in order. An exception of run leaves p.runctx
\* and the function, so that dump_stats is called only when run returned; an
\* exception of dump_stats leaves the function in place of run's return.
run_command_profiled(name, a, o, r, stored, d) ==
    [result |-> IF r.kind = "return" /\ ~Falsy(o.profile) THEN d ELSE r,
     err |-> IF ~Falsy(o.profile)
             THEN <<Line("writing cProfile stats", o.profile.val)>> ELSE <<>>,
     calls |-> (IF ~Falsy(o.profile)
                THEN <<Call("stderr.write", Returned, {})>> ELSE <<>>)
               \o <<CallOn("run", r, stored, name, a, o)>>
               \o (IF r.kind = "return" /\ ~Falsy(o.profile)
                   THEN <<Call("dump_stats", d, {})>> ELSE <<>>)]

\* _run_command(cmd, args, opts) (lines 160-165)
run_command(name, a, o, r, stored, d) ==
    IF ~Falsy(o.profile)
    THEN run_command_profiled(name, a, o, r, stored, d)
    ELSE [result |-> r, err |-> <<>>,
          calls |-> <<CallOn("run", r, stored, name, a, o)>>]

\* line 156: _run_print_help(parser, _run_command, cmd, args, opts); run may
\* store an exit code in cmd.exitcode before it returns or raises, and with
\* profiling p.dump_stats may raise when run has returned
RunCommand ==
    /\ pc = "run"
    /\ \E r \in HookResults, stored \in {{}} \cup {{c} : c \in RunExitCodes},
          d \in DumpResults :
           LET c == run_command(cmdname.val, args, opts, r, stored, d)
               h == run_print_help(c.result) IN
           /\ calls' = calls \o c.calls
           /\ exitcode' = IF stored = {} THEN exitcode
                           ELSE CHOOSE x \in stored : TRUE
           /\ outcome' = h.outcome
           /\ stderr' = stderr \o c.err \o h.err
           /\ stdout' = stdout \o h.out
           /\ pc' = IF h.outcome = Running THEN "exit" ELSE "done"
    /\ UNCHANGED <<env, argv, settings, cmds, cmdname, parserInput, opts,
                   args, nDiscover, nInst>>

\* line 157: sys.exit(cmd.exitcode)
Exit ==
    /\ pc = "exit"
    /\ calls' = Append(calls, Call("read exitcode", Returned, {}))
    /\ outcome' = SystemExit(exitcode)
    /\ pc' = "done"
    /\ UNCHANGED <<env, argv, settings, cmds, cmdname, parserInput, opts,
                   args, exitcode, stdout, stderr, nDiscover, nInst>>

Next ==
    \/ GetSettings
    \/ Discover
    \/ PopCommandName
    \/ NoCommand
    \/ UnknownCommand
    \/ SetupCommand
    \/ AddOptions
    \/ ParseArgs
    \/ ProcessOptions
    \/ MakeCrawlerProcess
    \/ RunCommand
    \/ Exit

Spec == Init /\ [][Next]_vars

(***************************************************************************)
(* What the specification says of command resolution, stated on the        *)
(* argument vector alone.                                                  *)
(***************************************************************************)
\* some element after element 0 does not begin with '-'
HasCommandToken(lst) == \E k \in 2..Len(lst) : ~StartsWithDash(lst[k])

\* the position of the first such element
CommandTokenIndex(lst) ==
    CHOOSE k \in 2..Len(lst) :
        /\ ~StartsWithDash(lst[k])
        /\ \A j \in 2..(k - 1) : StartsWithDash(lst[j])

\* the vector with exactly that element removed
WithoutCommandToken(lst) ==
    [k \in 1..(Len(lst) - 1) |->
        IF k < CommandTokenIndex(lst) THEN lst[k] ELSE lst[k + 1]]

\* discovery succeeded and _pop_command_name has returned
Resolved ==
    /\ pc \notin {"start", "discover", "pop"}
    /\ outcome.exc # "Invalid entry point"

\* execute() has chosen one of its three branches after resolution
Dispatched == Resolved /\ pc # "dispatch"

\* the call op has been made
Called(op) == \E k \in 1..Len(calls) : calls[k].op = op

\* the line what has been printed
Printed(what) == \E k \in 1..Len(stdout) : stdout[k].line = what

(***************************************************************************)
(* C1. After command resolution of an argument vector that contains a      *)
(* command token, the vector is the original one with exactly that token   *)
(* removed: the program name, the flags before the token and the tokens    *)
(* after it are all kept, in order.                                        *)
(* The code deletes argv[i] with i counted from 0 over argv[1:], which is  *)
(* the element BEFORE the token: this statement is violated.               *)
(***************************************************************************)
C1_CommandTokenRemoved ==
    (Resolved /\ HasCommandToken(argv0)) => argv = WithoutCommandToken(argv0)

(***************************************************************************)
(* C2. When a command is resolved, the list handed to the option parser is *)
(* the original argv[1:] with only the command token removed.              *)
(* Violated as soon as a flag precedes the command name: the flag is       *)
(* deleted and the command name is handed to the parser.                   *)
(***************************************************************************)
C2_ParserInputIsRemainder ==
    Called("parse_known_args")
        => parserInput = Slice1(WithoutCommandToken(argv0))

(***************************************************************************)
(* C3. execute() takes the "no command requested" path (command listing,   *)
(* exit 0) if and only if no element of argv after element 0 fails to      *)
(* begin with '-'; otherwise the resolved name is the first element of     *)
(* argv[1:] not beginning with '-', the empty string included; and when    *)
(* there is no such element argv is left unchanged.                        *)
(* Violated by an empty-string token: `not cmdname` is true of it, and the *)
(* listing is printed.                                                     *)
(***************************************************************************)
C3_NoCommandIffNoToken ==
    /\ Dispatched =>
          ((Printed("Available commands:") /\ outcome = SystemExit(0))
              <=> ~HasCommandToken(argv0))
    /\ (Resolved /\ HasCommandToken(argv0))
          => cmdname = Str(argv0[CommandTokenIndex(argv0)])
    /\ (Resolved /\ ~HasCommandToken(argv0))
          => (cmdname = None /\ argv = argv0)

(***************************************************************************)
(* C4. When the resolved command token is not a key of the registry, the   *)
(* invocation prints "Unknown command: <token>" and exits with 2, no       *)
(* command's default settings are merged and no command hook is called.    *)
(* Violated only by the empty-string token of C3, for which the listing is *)
(* printed and the exit code is 0.                                         *)
(***************************************************************************)
C4_UnknownCommandExits2 ==
    (Dispatched /\ HasCommandToken(argv0)
        /\ argv0[CommandTokenIndex(argv0)] \notin DOMAIN cmds)
    => /\ outcome = SystemExit(2)
       /\ \E k \in 1..Len(stdout) :
              stdout[k] = Line("Unknown command:",
                               argv0[CommandTokenIndex(argv0)])
       /\ settings[DefaultSettingsKey].priority # PriorityCommand
       /\ calls = <<>>

(***************************************************************************)
(* C5. When argv has no command token, the invocation prints a listing     *)
(* that holds the name of every command of the registry, in ascending name *)
(* order, and exits with 0 without calling run.                            *)
(***************************************************************************)
ListedNames ==
    LET rows == SelectSeq(stdout, LAMBDA l : l.line = "command")
    IN  [k \in 1..Len(rows) |-> rows[k].name]

C5_ListingSortedExit0 ==
    (Dispatched /\ ~HasCommandToken(argv0))
    => /\ Printed("Available commands:")
       /\ {ListedNames[k] : k \in 1..Len(ListedNames)} = DOMAIN cmds
       /\ \A j, k \in 1..Len(ListedNames) :
              j < k => StrLess(ListedNames[j], ListedNames[k])
       /\ outcome = SystemExit(0)
       /\ ~Called("run")

C5_Witness ==
    /\ Dispatched /\ ~HasCommandToken(argv0)
    /\ Len(argv0) > 1
    /\ Cardinality(DOMAIN cmds) >= 2
    /\ Len(ListedNames) >= 2

(***************************************************************************)
(* C6. If process_options raises a Usage Error with a non-empty message,   *)
(* the invocation exits with 2, run is never called and the crawler        *)
(* process is never constructed.                                           *)
(***************************************************************************)
ProcessOptionsRejected ==
    \E k \in 1..Len(calls) :
        /\ calls[k].op = "process_options"
        /\ calls[k].result.kind = "UsageError"
        /\ calls[k].result.msg # ""

C6_RejectedOptionsNeverRun ==
    ProcessOptionsRejected
    => /\ outcome = SystemExit(2)
       /\ ~Called("run")
       /\ ~Called("CrawlerProcess")

C6_Witness == ProcessOptionsRejected /\ pc = "done"

(***************************************************************************)
(* C7. As claimed: a Usage Error raised at any stage after the command is  *)
(* resolved (add_options, parsing, process_options, construction of the    *)
(* crawler process, run) is converted to exit code 2 and never leaves      *)
(* execute() as an exception.                                              *)
(* Violated: add_options and CrawlerProcess(settings) are called outside   *)
(* _run_print_help.                                                        *)
(***************************************************************************)
C7_UsageErrorAtAnyStage ==
    \A k \in 1..Len(calls) :
        calls[k].result.kind = "UsageError" => outcome = SystemExit(2)

(***************************************************************************)
(* C7, amended. A Usage Error raised by process_options or by run is       *)
(* intercepted: execute() does not end with that exception but with        *)
(* SystemExit(2). A Usage Error leaves execute() unhandled only when       *)
(* add_options or the construction of the crawler process raised it.       *)
(***************************************************************************)
C7_UsageErrorIntercepted ==
    /\ \A k \in 1..Len(calls) :
           (calls[k].op \in {"process_options", "run"}
                /\ calls[k].result.kind = "UsageError")
           => (outcome.kind # "raise" /\ outcome = SystemExit(2))
    /\ outcome = Raised("UsageError")
           => calls[Len(calls)].op \in {"add_options", "CrawlerProcess"}

C7_Witness ==
    /\ pc = "done"
    /\ \E k \in 1..Len(calls) :
           calls[k].op = "run" /\ calls[k].result.kind = "UsageError"

(***************************************************************************)
(* C8. As claimed: every intercepted Usage Error gives exit code 2         *)
(* together with a parser error message or the help text, for every        *)
(* combination of message and show-help flag.                              *)
(* Violated by an empty message with the flag not set: nothing is printed. *)
(***************************************************************************)
Intercepted(k) ==
    /\ calls[k].op \in {"process_options", "run"}
    /\ calls[k].result.kind = "UsageError"

ErrorOrHelpShown ==
    \/ \E j \in 1..Len(stderr) : stderr[j].line = "parser.error"
    \/ \E j \in 1..Len(stdout) : stdout[j].line = "parser.print_help"

C8_AlwaysErrorOrHelp ==
    \A k \in 1..Len(calls) :
        Intercepted(k) => (outcome = SystemExit(2) /\ ErrorOrHelpShown)

(***************************************************************************)
(* C8, amended. Every intercepted Usage Error gives exit code 2; a parser  *)
(* error message or the help text comes with it exactly when the message   *)
(* is non-empty or the show-help flag is set.                              *)
(***************************************************************************)
C8_ErrorOrHelpWhenAsked ==
    \A k \in 1..Len(calls) :
        Intercepted(k)
        => /\ outcome = SystemExit(2)
           /\ ErrorOrHelpShown
                <=> (calls[k].result.msg # "" \/ calls[k].result.print_help)

C8_Witness ==
    /\ pc = "done"
    /\ \E k \in 1..Len(calls) :
           /\ Intercepted(k)
           /\ calls[k].result.msg = ""
           /\ calls[k].result.print_help
    /\ \E j \in 1..Len(stdout) : stdout[j].line = "parser.print_help"

(***************************************************************************)
(* C9. When process_options and run both return normally, the exit code    *)
(* is cmd.exitcode as it stands after run returned (the value the command  *)
(* stored last, 0 if it stored none); exitcode is not read before run has  *)
(* been called; and when run raises a Usage Error the exit code is 2       *)
(* whatever run stored.                                                    *)
(* Violated with profiling requested when p.dump_stats raises after run    *)
(* returned: execute() ends with that exception and exits with no code.    *)
(***************************************************************************)
RunCall == CHOOSE k \in 1..Len(calls) : calls[k].op = "run"

\* the value of cmd.exitcode: the code a call stored last, 0 before any
LastStoredCode ==
    LET storing == {k \in 1..Len(calls) : calls[k].stored # {}} IN
    IF storing = {} THEN 0
    ELSE LET k == CHOOSE i \in storing : \A j \in storing : j <= i
         IN CHOOSE c \in calls[k].stored : TRUE

C9_ExitCodeAfterRun ==
    /\ (pc = "done" /\ Called("run") /\ calls[RunCall].result.kind = "return")
       => /\ outcome = SystemExit(exitcode)
          /\ exitcode = LastStoredCode
    /\ \A k \in 1..Len(calls) :
           calls[k].op = "read exitcode"
           => \E j \in 1..(k - 1) : calls[j].op = "run"
    /\ (Called("run") /\ calls[RunCall].result.kind = "UsageError")
       => outcome = SystemExit(2)

(***************************************************************************)
(* What holds of the exit code: the same, for the invocations in which     *)
(* p.dump_stats did not raise.                                             *)
(***************************************************************************)
ExitCodeAfterRunUnlessDumpRaised ==
    /\ (pc = "done" /\ Called("run") /\ calls[RunCall].result.kind = "return"
          /\ \A k \in 1..Len(calls) :
                 calls[k].op = "dump_stats" => calls[k].result.kind = "return")
       => /\ outcome = SystemExit(exitcode)
          /\ exitcode = LastStoredCode
    /\ \A k \in 1..Len(calls) :
           calls[k].op = "read exitcode"
           => \E j \in 1..(k - 1) : calls[j].op = "run"
    /\ (Called("run") /\ calls[RunCall].result.kind = "UsageError")
       => outcome = SystemExit(2)

(***************************************************************************)
(* C10. A command name provided by more than one discovery source is held  *)
(* in the registry by the instance of the latest source in the order       *)
(* built-in, plugin registry, override module; the override module counts  *)
(* only when COMMANDS_MODULE is non-empty; a name provided by one source   *)
(* is held by that source's instance. A module source provides the classes *)
(* that pass the project filter, the plugin registry every entry.          *)
(***************************************************************************)
Discovered ==
    /\ pc \notin {"start", "discover"}
    /\ outcome.exc # "Invalid entry point"

PassesFilter(c) == inproject \/ ~c.requires_project

BuiltinProvides(n) ==
    \E i \in 1..Len(builtinClasses) :
        builtinClasses[i].name = n /\ PassesFilter(builtinClasses[i])

PluginProvides(n) ==
    \E i \in 1..Len(entryPoints) : entryPoints[i].name = n

OverrideProvides(n) ==
    /\ settings["COMMANDS_MODULE"].value # ""
    /\ \E i \in 1..Len(moduleClasses) :
           moduleClasses[i].name = n /\ PassesFilter(moduleClasses[i])

LatestSource(n) ==
    IF OverrideProvides(n) THEN "module"
    ELSE IF PluginProvides(n) THEN "entry_point"
    ELSE "builtin"

\* within one source, the last object of the name n that the source provides
LastOf(n, src) ==
    LET seq == CASE src = "module" -> moduleClasses
                 [] src = "entry_point" -> entryPoints
                 [] OTHER -> builtinClasses
        ok(i) == seq[i].name = n /\ (src = "entry_point" \/ PassesFilter(seq[i]))
    IN  CHOOSE i \in 1..Len(seq) :
            ok(i) /\ \A j \in (i + 1)..Len(seq) : ~ok(j)

C10_LatestSourceWins ==
    Discovered
    => \A n \in CmdNames :
          /\ n \in DOMAIN cmds
               <=> (BuiltinProvides(n) \/ PluginProvides(n) \/ OverrideProvides(n))
          /\ n \in DOMAIN cmds
               => /\ cmds[n].cls.name = n
                  /\ cmds[n].cls.src = LatestSource(n)
                  /\ cmds[n].cls.idx = LastOf(n, LatestSource(n))

C10_Witness ==
    /\ Discovered
    /\ \E n \in CmdNames :
           BuiltinProvides(n) /\ PluginProvides(n) /\ OverrideProvides(n)
    /\ \E n \in CmdNames : n \notin DOMAIN cmds

(***************************************************************************)
(* C11. As claimed: while the project flag is false, no registry produced  *)
(* by discovery holds a command with requires_project = true, whichever    *)
(* of the three sources supplied it.                                       *)
(* Violated by a plugin-registry entry whose class requires a project:     *)
(* _get_commands_from_entry_points does not look at requires_project.      *)
(***************************************************************************)
C11_NoProjectCommandOutsideProject ==
    (Discovered /\ ~inproject)
    => \A n \in DOMAIN cmds : ~cmds[n].cls.requires_project

(***************************************************************************)
(* C11, amended. While the project flag is false, no registry produced by  *)
(* discovery holds a command with requires_project = true that the         *)
(* built-in namespace or the override module supplied, in whatever order   *)
(* the sources are merged: every command in the registry that requires a   *)
(* project was supplied by the plugin registry.                            *)
(***************************************************************************)
C11_NoProjectCommandFromModules ==
    (Discovered /\ ~inproject)
    => \A n \in DOMAIN cmds :
           /\ cmds[n].cls.src \in {"builtin", "module"}
                => ~cmds[n].cls.requires_project
           /\ cmds[n].cls.requires_project
                => /\ cmds[n].cls.src = "entry_point"
                   /\ \E i \in 1..Len(entryPoints) :
                          cmds[n] = Instantiate(entryPoints[i])

C11_Witness ==
    /\ Discovered /\ ~inproject
    /\ settings["COMMANDS_MODULE"].value # ""
    /\ \E i \in 1..Len(builtinClasses) : builtinClasses[i].requires_project
    /\ \E i \in 1..Len(moduleClasses) :
           /\ moduleClasses[i].requires_project
           /\ moduleClasses[i].name \notin DOMAIN cmds

(***************************************************************************)
(* C12. A class loaded from the plugin registry is placed in the registry  *)
(* under the entry's declared name whatever its requires_project and       *)
(* whatever the project flag (it stays there unless the override module    *)
(* provides the same name); the built-in and override-module scans leave   *)
(* out every class that requires a project when there is none.             *)
(***************************************************************************)
LastEntryNamed(n) ==
    CHOOSE i \in 1..Len(entryPoints) :
        /\ entryPoints[i].name = n
        /\ \A j \in (i + 1)..Len(entryPoints) : entryPoints[j].name # n

C12_PluginsBypassProjectFilter ==
    Discovered
    => /\ \A i \in 1..Len(entryPoints) :
              LET n == entryPoints[i].name IN
              /\ n \in DOMAIN cmds
              /\ ~OverrideProvides(n)
                   => cmds[n] = Instantiate(entryPoints[LastEntryNamed(n)])
       /\ \A n \in DOMAIN cmds :
              /\ \A i \in 1..Len(builtinClasses) :
                     ~PassesFilter(builtinClasses[i])
                     => cmds[n] # Instantiate(builtinClasses[i])
              /\ \A i \in 1..Len(moduleClasses) :
                     ~PassesFilter(moduleClasses[i])
                     => cmds[n] # Instantiate(moduleClasses[i])

C12_Witness ==
    /\ Discovered /\ ~inproject
    /\ \E n \in DOMAIN cmds :
           cmds[n].cls.src = "entry_point" /\ cmds[n].cls.requires_project
    /\ \E i \in 1..Len(builtinClasses) : ~PassesFilter(builtinClasses[i])

(***************************************************************************)
(* C13. Profiling does not change the outcome of an invocation: run is     *)
(* called exactly once, with the leftover arguments and the parsed         *)
(* options, and how execute() ends is decided by how run ended alone - the *)
(* exit code the command left, exit code 2 for a Usage Error, the          *)
(* exception itself otherwise - with opts.profile set as without it.       *)
(* Violated with profiling requested when p.dump_stats raises after run    *)
(* returned: execute() ends with that exception instead of the exit code.  *)
(***************************************************************************)
RunCalls == {k \in 1..Len(calls) : calls[k].op = "run"}

\* how execute() ends when run ended as r and cmd.exitcode holds code
OutcomeOfRun(r, code) ==
    IF r.kind = "return" THEN SystemExit(code)
    ELSE IF r.kind = "UsageError" THEN SystemExit(2)
    ELSE Raised(r.kind)

C13_ProfilingKeepsOutcome ==
    \A profiled \in BOOLEAN :
        (Called("run") /\ (~Falsy(opts.profile)) = profiled)
        => /\ Cardinality(RunCalls) = 1
           /\ calls[RunCall].args = args
           /\ calls[RunCall].opts = opts
           /\ pc = "done"
                => outcome = OutcomeOfRun(calls[RunCall].result,
                                          LastStoredCode)

(***************************************************************************)
(* What holds of the outcome with and without profiling: run is called     *)
(* once with the leftover arguments and the parsed options, and execute()  *)
(* ends as run's end decides unless p.dump_stats raised, in which case it  *)
(* ends with that exception.                                               *)
(***************************************************************************)
DumpRaised ==
    \E k \in 1..Len(calls) :
        calls[k].op = "dump_stats" /\ calls[k].result.kind # "return"

OutcomeUnlessDumpRaised ==
    Called("run")
    => /\ Cardinality(RunCalls) = 1
       /\ calls[RunCall].args = args
       /\ calls[RunCall].opts = opts
       /\ pc = "done"
            => outcome = IF DumpRaised THEN Raised("OSError")
                         ELSE OutcomeOfRun(calls[RunCall].result,
                                           LastStoredCode)

(***************************************************************************)
(* C14. As claimed: whenever the environment holds EDITOR, its value is in *)
(* the Settings Provider before discovery begins, on every call of         *)
(* execute(), whether execute() created the provider or the caller         *)
(* supplied it.                                                            *)
(* Violated when the caller supplies the settings: the copy is made inside *)
(* `if settings is None`.                                                  *)
(***************************************************************************)
C14_EditorAlwaysCopied ==
    (pc # "start" /\ envEditor) => settings["EDITOR"].value = EnvEditorValue

(***************************************************************************)
(* What execute() does about EDITOR: whenever the environment holds it and *)
(* execute() created the Settings Provider itself (it was called with      *)
(* settings = None), the value is in the provider before discovery begins; *)
(* a provider supplied by the caller keeps the EDITOR it came with.        *)
(***************************************************************************)
EditorCopiedIntoOwnSettings ==
    /\ (pc # "start" /\ envEditor /\ ~settingsGiven)
          => settings["EDITOR"].value = EnvEditorValue
    /\ pc = "discover" => nDiscover = 0
    /\ settingsGiven => settings["EDITOR"] = ProjectSettings("")["EDITOR"]

(***************************************************************************)
(* C15. In every invocation that reaches run, these steps have happened    *)
(* once each and in this order: default_settings merged at 'command'       *)
(* priority, settings bound to the command, add_options, argv parsed,      *)
(* process_options with the leftover arguments and parsed options, run     *)
(* with the same arguments and options; all of them on one command.        *)
(***************************************************************************)
PipelineOps ==
    {"setdict", "bind settings", "add_options", "parse_known_args",
     "process_options", "run"}

Pipeline == SelectSeq(calls, LAMBDA c : c.op \in PipelineOps)

C15_PipelineOrder ==
    Called("run")
    => /\ [k \in 1..Len(Pipeline) |-> Pipeline[k].op]
            = <<"setdict", "bind settings", "add_options",
                "parse_known_args", "process_options", "run">>
       /\ settings[DefaultSettingsKey].priority >= PriorityCommand
       /\ settings[DefaultSettingsKey].priority = PriorityCommand
            => settings[DefaultSettingsKey].value = DefaultSettingsValue
       /\ args = parse_known_args(parserInput).args
       /\ opts = parse_known_args(parserInput).opts
       /\ \A k \in {5, 6} : Pipeline[k].args = args /\ Pipeline[k].opts = opts
       /\ \A k \in {1, 2, 3, 5, 6} : Pipeline[k].cmd = cmdname.val
       /\ cmdname.val \in DOMAIN cmds

C15_Witness ==
    /\ Called("run")
    /\ pc = "done"
    /\ Len(args) >= 1
    /\ ~Falsy(opts.profile)

(***************************************************************************)
(* C16. For an intercepted Usage Error: with a non-empty message the       *)
(* parser's error routine is called and the process exits with 2 without   *)
(* the error surface printing the help text, even when the show-help flag  *)
(* is set; with an empty message and the flag set the help text is printed *)
(* and the process exits with 2.                                           *)
(***************************************************************************)
ErrorShown == \E j \in 1..Len(stderr) : stderr[j].line = "parser.error"
HelpShown == \E j \in 1..Len(stdout) : stdout[j].line = "parser.print_help"

C16_ErrorBeforeHelp ==
    \A k \in 1..Len(calls) :
        Intercepted(k)
        => /\ calls[k].result.msg # ""
                => (ErrorShown /\ ~HelpShown /\ outcome = SystemExit(2))
           /\ (calls[k].result.msg = "" /\ calls[k].result.print_help)
                => (HelpShown /\ ~ErrorShown /\ outcome = SystemExit(2))

C16_Witness ==
    /\ pc = "done"
    /\ \E k \in 1..Len(calls) :
           /\ Intercepted(k)
           /\ calls[k].result.msg # ""
           /\ calls[k].result.print_help
    /\ ErrorShown

(***************************************************************************)
(* C17. As claimed: with profiling requested, the statistics file is       *)
(* written and the diagnostic line is emitted on completion of run:        *)
(* neither before run has returned, both before the process exits after a  *)
(* successful run.                                                         *)
(* Violated: the diagnostic line is written before run is called.          *)
(***************************************************************************)
RunReturnedBefore(k) ==
    \E j \in 1..(k - 1) :
        calls[j].op = "run" /\ calls[j].result.kind = "return"

C17_ProfileOutputAfterRun ==
    /\ \A k \in 1..Len(calls) :
           calls[k].op \in {"stderr.write", "dump_stats"}
           => RunReturnedBefore(k)
    /\ (outcome.kind = "exit" /\ Called("run") /\ ~Falsy(opts.profile)
           /\ calls[RunCall].result.kind = "return")
       => (Called("stderr.write") /\ Called("dump_stats"))

(***************************************************************************)
(* What the profiled wrapper does: the diagnostic line naming the          *)
(* destination is emitted before run is called, and the statistics file is *)
(* written on completion of run, not before run has returned; both have    *)
(* happened before the process exits after a successful run.               *)
(***************************************************************************)
LineBeforeRunStatsAfter ==
    /\ \A k \in 1..Len(calls) :
           /\ calls[k].op = "dump_stats" => RunReturnedBefore(k)
           /\ calls[k].op = "stderr.write"
                => /\ \A j \in 1..k : calls[j].op # "run"
                   /\ k < Len(calls) /\ calls[k + 1].op = "run"
    /\ (outcome.kind = "exit" /\ Called("run") /\ ~Falsy(opts.profile)
           /\ calls[RunCall].result.kind = "return")
       => (Called("stderr.write") /\ Called("dump_stats"))

(***************************************************************************)
(* C18. With profiling requested the statistics file is written if and     *)
(* only if run returns normally (not when run raises a Usage Error or any  *)
(* other exception); without profiling requested no statistics file is     *)
(* written and no diagnostic line is emitted.                              *)
(* Violated when p.dump_stats raises: run returned normally and no         *)
(* statistics file is written.                                             *)
(***************************************************************************)
DiagnosticShown ==
    \E j \in 1..Len(stderr) : stderr[j].line = "writing cProfile stats"

\* p.dump_stats was called and returned
StatsWritten ==
    \E k \in 1..Len(calls) :
        calls[k].op = "dump_stats" /\ calls[k].result.kind = "return"

C18_StatsIffRunReturned ==
    /\ (Called("run") /\ ~Falsy(opts.profile))
          => (StatsWritten <=> calls[RunCall].result.kind = "return")
    /\ Falsy(opts.profile)
          => (~StatsWritten /\ ~Called("stderr.write") /\ ~DiagnosticShown)

(***************************************************************************)
(* What holds of the statistics file: p.dump_stats is called if and only   *)
(* if profiling is requested and run returned normally, so that no file is *)
(* written when run raises or without profiling; when the call raises,     *)
(* execute() ends with its exception.                                      *)
(***************************************************************************)
StatsOnlyAfterRunReturned ==
    /\ Called("dump_stats")
          <=> (Called("run") /\ ~Falsy(opts.profile)
                 /\ calls[RunCall].result.kind = "return")
    /\ (DumpRaised /\ pc = "done") => outcome = Raised("OSError")
    /\ Falsy(opts.profile)
          => (~Called("stderr.write") /\ ~DiagnosticShown)

(***************************************************************************)
(* C19. The registry is built exactly once per invocation: on every path   *)
(* through execute() command discovery has run once, and each discovered   *)
(* command class has been instantiated once, when execute() ends.          *)
(* Violated on the path without a command token: _print_commands calls     *)
(* _get_commands_dict a second time.                                       *)
(***************************************************************************)
\* the number of instantiations one discovery makes
InstancesPerDiscovery ==
    ModuleInstCount(builtinClasses, inproject) + Len(entryPoints)
    + (IF settings["COMMANDS_MODULE"].value # ""
       THEN ModuleInstCount(moduleClasses, inproject) ELSE 0)

C19_RegistryBuiltOnce ==
    (pc = "done" /\ outcome.exc # "Invalid entry point")
    => (nDiscover = 1 /\ nInst = InstancesPerDiscovery)

(***************************************************************************)
(* C20. If a plugin-registry entry loads to an object that is no class,    *)
(* discovery fails with an exception naming that entry: execute() ends     *)
(* there, before command resolution (argv not modified, nothing printed,   *)
(* no command hook and no run called), and the exception is not turned     *)
(* into exit code 2.                                                       *)
(***************************************************************************)
HasInvalidEntry == \E i \in 1..Len(entryPoints) : ~entryPoints[i].isclass

FirstInvalidEntry ==
    CHOOSE i \in 1..Len(entryPoints) :
        /\ ~entryPoints[i].isclass
        /\ \A j \in 1..(i - 1) : entryPoints[j].isclass

C20_InvalidEntryAborts ==
    (HasInvalidEntry /\ pc \notin {"start", "discover"})
    => /\ pc = "done"
       /\ outcome = RaisedNaming("Invalid entry point",
                                 entryPoints[FirstInvalidEntry].name)
       /\ argv = argv0
       /\ cmdname = None
       /\ stdout = <<>> /\ stderr = <<>>
       /\ calls = <<>>

C20_Witness ==
    /\ HasInvalidEntry
    /\ pc = "done"
    /\ Len(argv0) > 1
    /\ FirstInvalidEntry > 1
    /\ outcome.kind = "raise"

====
